---- MODULE Spec2Model ----
(***************************************************************************)
(* The read-through cache handler of WonderNAV's chat Lambda               *)
(* (rust_app/src/add_chat_function.rs).  Every invocation of               *)
(* function_handler is a process that suspends at its three await points:  *)
(* the DynamoDB get_item, the OpenAI completion call and the DynamoDB      *)
(* put_item.  The table "WonderNAV-Chats" is the only shared state.        *)
(***************************************************************************)
EXTENDS Integers, Sequences, FiniteSets, TLC

\* Number of events the runtime delivers; each is one invocation of
\* function_handler, and invocations are numbered in order of arrival.
NumInv == 3
\* Longest list of completions the generation service returns.
MaxChoices == 2

Invocations == 1..NumInv

\* Request bodies (used verbatim as the table key).
Keys == {"k1", "k2"}
\* request.body of an invocation whose event has not arrived yet.
NoRequest == ""
\* Texts the generation service can produce / the table can already hold.
Texts == {"t1", "t2"}
\* Descriptions of the DynamoError a get_item can fail with.
StoreErrors == {"e1", "e2"}
\* Descriptions of the SdkError a put_item can fail with.
PutErrors == {"w1"}

FallbackText == "Error generating response."
SentinelText == "Item attribute does not exist"
QueryErrorPrefix == "Error querying DynamoDB: "

-----------------------------------------------------------------------------
(* The table.  An entry is what get_item finds under a key: no item, an    *)
(* item without an 'output' attribute, or an item whose 'output' attribute *)
(* is AttributeValue::S(text) or another AttributeValue variant (N).       *)

NoItem == [tag |-> "NoItem", val |-> ""]
NoOutputItem == [tag |-> "NoAttr", val |-> ""]
NumberItem == [tag |-> "N", val |-> "7"]
TextItem(t) == [tag |-> "S", val |-> t]

\* What the table may hold before any invocation of the handler.
InitItems == {NoItem, NoOutputItem, NumberItem} \cup {TextItem(t) : t \in Texts}

-----------------------------------------------------------------------------
(* Result values.                                                          *)

None == [kind |-> "None", val |-> ""]
Some(v) == [kind |-> "Some", val |-> v]
Ok(v) == [kind |-> "Ok", val |-> v]
Err(e) == [kind |-> "Err", val |-> e]
Panic == [kind |-> "Panic", val |-> "index out of bounds"]
Unset == [kind |-> "Unset", val |-> ""]

\* Response { statusCode, body } wrapped in the handler's Result.
Response(code, text) == [kind |-> "Ok", statusCode |-> code, body |-> text]
HandlerErr(e) == [kind |-> "Err", statusCode |-> 0, body |-> e]
HandlerPanic == [kind |-> "Panic", statusCode |-> 0, body |-> Panic.val]
NoResult == [kind |-> "Unset", statusCode |-> 0, body |-> ""]

\* What get_item(...).send().await yields: Ok(GetItemOutput{item}) or Err.
GetOk(item) == [kind |-> "Ok", item |-> item, err |-> ""]
GetErr(e) == [kind |-> "Err", item |-> NoItem, err |-> e]

-----------------------------------------------------------------------------
(* Pure functions of add_chat_function.rs.                                 *)

\* item.get("output"): is the attribute there.
has_output(item) == item.tag \in {"S", "N"}

\* AttributeValue::as_s: Ok only for the S variant.
as_s(item) == IF item.tag = "S" THEN Ok(item.val) ELSE Err("not S")

\* A query_dynamodb that loses the hit arm: a text record is reported as
\* absent.
query_dynamodb_HitAsMiss(got) ==
    IF got.kind = "Err" THEN Err(got.err)
    ELSE IF got.item # NoItem /\ has_output(got.item) /\ as_s(got.item).kind # "Ok"
         THEN Some(SentinelText)
         ELSE None

\* query_dynamodb, applied to the outcome of get_item(...).send().await
query_dynamodb(got) ==
    IF got.kind = "Err" THEN Err(got.err)
    ELSE IF got.item # NoItem
         THEN IF has_output(got.item)
              THEN IF as_s(got.item).kind = "Ok"
                   THEN Some(as_s(got.item).val)
                   ELSE Some(SentinelText)
              ELSE None
         ELSE None

\* A transform_result that lets the error's text through instead of the
\* fixed fallback.
transform_result_LeakError(result) == result.val

\* transform_result
transform_result(result) ==
    IF result.kind = "Ok" THEN result.val ELSE FallbackText

\* Outcomes of the two fallible steps of generate_response and the
\* completions a successful call returns.
ChoiceLists == UNION {[1..n -> Texts] : n \in 0..MaxChoices}
GenOutcomes ==
    {[build |-> FALSE, call |-> FALSE, choices |-> <<>>],
     [build |-> TRUE, call |-> FALSE, choices |-> <<>>]}
    \cup {[build |-> TRUE, call |-> TRUE, choices |-> c] : c \in ChoiceLists}

\* generate_response, applied to the outcome of build() and create().await
generate_response(o) ==
    IF ~o.build THEN Err("build")
    ELSE IF ~o.call THEN Err("call")
    ELSE IF Len(o.choices) = 0 THEN Panic
    ELSE Ok(o.choices[1])

-----------------------------------------------------------------------------
VARIABLES
    store,      \* the table: key -> entry
    pc,         \* per invocation: "start", "generate", "put", "done"
    request,    \* per invocation: request.body
    found,      \* per invocation: what query_dynamodb returned
    generated,  \* per invocation: how generate_response returned
                \* ("Ok", "Err", "Panic"; "Unset" before it has)
    openai_resp, \* per invocation: openai_resp (line 84), "" before it is set
    put_response, \* per invocation: what put_item(...).send() returned
    result,     \* per invocation: what function_handler returned
    genCalls,   \* per invocation: calls of generate_response
    putCalls    \* per invocation: put_item requests sent

vars == <<store, pc, request, found, generated, openai_resp, put_response, result, genCalls, putCalls>>

Init ==
    /\ store \in [Keys -> InitItems]
    /\ request = [i \in Invocations |-> NoRequest]
    /\ pc = [i \in Invocations |-> "start"]
    /\ found = [i \in Invocations |-> Unset]
    /\ generated = [i \in Invocations |-> "Unset"]
    /\ openai_resp = [i \in Invocations |-> ""]
    /\ put_response = [i \in Invocations |-> Unset]
    /\ result = [i \in Invocations |-> NoResult]
    /\ genCalls = [i \in Invocations |-> 0]
    /\ putCalls = [i \in Invocations |-> 0]

\* What get_item(...).send().await can return for a key: the entry the
\* table holds, or an error.
GetOutcomes(key) == {GetOk(store[key])} \cup {GetErr(e) : e \in StoreErrors}

\* What put_item(...).send().await can return.
PutOutcomes == {Ok("")} \cup {Err(w) : w \in PutErrors}

\* The match arms as AddChatFunction.rs has them: a query error is answered
\* with status 200 and the bare error text.
match_arm_Status200(q) ==
    IF q.kind = "Some" THEN Response(200, q.val)
    ELSE IF q.kind = "Err" THEN Response(200, q.val)
    ELSE NoResult

\* The arms of the match in function_handler that answer at once: the hit
\* (lines 79-82) and the query error (lines 97-100); NoResult for a miss.
match_arm(q) ==
    IF q.kind = "Some" THEN Response(200, q.val)
    ELSE IF q.kind = "Err" THEN Response(500, QueryErrorPrefix \o q.val)
    ELSE NoResult

\* A miss arm that drops the put error (`.ok()` in place of `?`) and answers
\* 200 all the same.
put_arm_Swallow(out, text) == Response(200, text)

\* A miss arm that turns the put error into a 500 response, as the doc
\* comment of function_handler has it.
put_arm_Status500(out, text) ==
    IF out.kind = "Err" THEN Response(500, out.val) ELSE Response(200, text)

\* A miss arm that answers with the fallback string whatever was stored.
put_arm_FallbackBody(out, text) ==
    IF out.kind = "Err" THEN HandlerErr(out.val) ELSE Response(200, FallbackText)

\* The end of the miss arm (lines 91-95): `?` on the put result, then the
\* 200 response carrying openai_resp.
put_arm(out, text) ==
    IF out.kind = "Err" THEN HandlerErr(out.val) ELSE Response(200, text)

\* A put_item made conditional on the key being absent
\* (attribute_not_exists): the first write wins.
put_item_IfAbsent(table, out, key, text) ==
    IF out.kind = "Ok" /\ table[key] = NoItem
    THEN [table EXCEPT ![key] = TextItem(text)]
    ELSE table

\* A put_item that writes every item under one fixed key.
put_item_FixedKey(table, out, key, text) ==
    IF out.kind = "Ok" THEN [table EXCEPT !["k1"] = TextItem(text)] ELSE table

\* A put_item whose item never reaches the table.
put_item_Dropped(table, out, key, text) == table

\* The table after put_item of {input: S(key), output: S(text)}: an
\* accepted put replaces the entry under the key, a failed one is not applied.
put_item(table, out, key, text) ==
    IF out.kind = "Ok" THEN [table EXCEPT ![key] = TextItem(text)] ELSE table

\* A lookup whose hit arm does not return: the handler falls through to the
\* generation step after a hit as well.
Lookup_FallThrough(i) ==
    /\ pc[i] = "start"
    /\ i > 1 => pc[i - 1] # "start"
    /\ \E body \in Keys : \E got \in GetOutcomes(body) :
          /\ request' = [request EXCEPT ![i] = body]
          /\ found' = [found EXCEPT ![i] = query_dynamodb(got)]
          /\ result' = [result EXCEPT ![i] = NoResult]
          /\ pc' = [pc EXCEPT ![i] = "generate"]
    /\ UNCHANGED <<store, generated, openai_resp, put_response, genCalls, putCalls>>

\* Lines 71-82, 97-101: the event arrives with its body, then the lookup and
\* the two arms that answer at once.
Lookup(i) ==
    /\ pc[i] = "start"
    /\ i > 1 => pc[i - 1] # "start"
    /\ \E body \in Keys : \E got \in GetOutcomes(body) :
          /\ request' = [request EXCEPT ![i] = body]
          /\ found' = [found EXCEPT ![i] = query_dynamodb(got)]
          /\ result' = [result EXCEPT ![i] = match_arm(query_dynamodb(got))]
          /\ pc' = [pc EXCEPT ![i] =
                      IF query_dynamodb(got) = None THEN "generate" ELSE "done"]
    /\ UNCHANGED <<store, generated, openai_resp, put_response, genCalls, putCalls>>

\* Line 84: transform_result(generate_response(&request.body).await); an
\* empty completion list panics at choices[0] and ends the invocation.
Generate(i) ==
    /\ pc[i] = "generate"
    /\ \E o \in GenOutcomes :
          /\ generated' = [generated EXCEPT ![i] = generate_response(o).kind]
          /\ IF generate_response(o) = Panic
             THEN /\ pc' = [pc EXCEPT ![i] = "done"]
                  /\ result' = [result EXCEPT ![i] = HandlerPanic]
                  /\ UNCHANGED openai_resp
             ELSE /\ pc' = [pc EXCEPT ![i] = "put"]
                  /\ openai_resp' = [openai_resp EXCEPT ![i] =
                                        transform_result(generate_response(o))]
                  /\ UNCHANGED result
    /\ genCalls' = [genCalls EXCEPT ![i] = @ + 1]
    /\ UNCHANGED <<store, request, found, put_response, putCalls>>

\* Lines 85-95: put_item(...).send().await? and the response of the miss arm.
Put(i) ==
    /\ pc[i] = "put"
    /\ putCalls' = [putCalls EXCEPT ![i] = @ + 1]
    /\ \E out \in PutOutcomes :
          /\ put_response' = [put_response EXCEPT ![i] = out]
          /\ store' = put_item(store, out, request[i], openai_resp[i])
          /\ result' = [result EXCEPT ![i] = put_arm(out, openai_resp[i])]
    /\ pc' = [pc EXCEPT ![i] = "done"]
    /\ UNCHANGED <<request, found, generated, openai_resp, genCalls>>

Next == \E i \in Invocations : Lookup(i) \/ Generate(i) \/ Put(i)

Spec == Init /\ [][Next]_vars

\* External calls return and events are delivered: while some invocation
\* awaits a call or some event is pending, one of them goes through.  (Every
\* step stays enabled until it is taken, so this is what "each awaited call
\* eventually returns" amounts to.)
Fairness == WF_vars(Next)

FairSpec == Spec /\ Fairness

TypeOK ==
    /\ \A i \in Invocations : pc[i] \in {"start", "generate", "put", "done"}
    /\ \A i \in Invocations : genCalls[i] \in 0..1 /\ putCalls[i] \in 0..1

-----------------------------------------------------------------------------
(* Vocabulary of the properties.                                           *)

Done(i) == pc[i] = "done"
\* What query_dynamodb returned to invocation i.
Hit(i) == found[i].kind = "Some"
Missed(i) == found[i] = None
LookupFailed(i) == found[i].kind = "Err"
GenFailed(i) == generated[i] = "Err"
GenSucceeded(i) == generated[i] = "Ok"
PutFailed(i) == put_response[i].kind = "Err"
PutSucceeded(i) == put_response[i].kind = "Ok"
\* Invocation i takes its lookup / generation / put step in this transition.
LookupStep(i) == pc[i] = "start" /\ pc'[i] # "start"
GenerateStep(i) == pc[i] = "generate" /\ pc'[i] # "generate"
PutStep(i) == pc[i] = "put" /\ pc'[i] = "done"
\* In a lookup step of i: what the table holds under the key looked up, and
\* whether the get_item went through.
Looked(i) == store[request'[i]]
GetSucceeded(i) == found'[i].kind # "Err"

-----------------------------------------------------------------------------
C1_HitStep ==
    \A i \in Invocations :
        (LookupStep(i) /\ GetSucceeded(i) /\ Looked(i).tag = "S") =>
            /\ Done(i)'
            /\ result'[i] = Response(200, Looked(i).val)
            /\ store' = store

C1_HitInv ==
    \A i \in Invocations :
        Hit(i) =>
            /\ Done(i)
            /\ result[i] = Response(200, found[i].val)
            /\ genCalls[i] = 0
            /\ putCalls[i] = 0
            /\ put_response[i] = Unset

\* C1: a lookup that goes through and finds a record with a text 'output'
\* ends the invocation at once with Ok(Response{200, that text}); the
\* invocation never calls generate_response and never sends a put_item.
C1_CacheHit == []C1_HitInv /\ [][C1_HitStep]_vars

C1_Witness ==
    \E i \in Invocations :
        /\ Done(i) /\ Hit(i) /\ result[i].statusCode = 200
        /\ store[request[i]] = TextItem(result[i].body)

-----------------------------------------------------------------------------
C2_MissInv ==
    \A i \in Invocations :
        (Done(i) /\ Missed(i)) =>
            /\ genCalls[i] = 1
            /\ generated[i] = "Panic" => (putCalls[i] = 0 /\ result[i] = HandlerPanic)
            /\ generated[i] # "Panic" => putCalls[i] = 1
            /\ PutSucceeded(i) =>
                  /\ result[i] = Response(200, openai_resp[i])
                  /\ GenSucceeded(i) => result[i].body \in Texts
            /\ PutFailed(i) => result[i] = HandlerErr(put_response[i].val)

C2_MissStep ==
    \A i \in Invocations :
        /\ (LookupStep(i) /\ GetSucceeded(i) /\ Looked(i) = NoItem) =>
              Missed(i)' /\ pc'[i] = "generate"
        /\ PutStep(i) =>
              IF PutSucceeded(i)'
              THEN store' = [store EXCEPT ![request[i]] = TextItem(result'[i].body)]
              ELSE store' = store

-----------------------------------------------------------------------------
\* C3: an invocation whose get_item failed ends with Ok(Response{500,
\* "Error querying DynamoDB: " ++ the error's description}), having called
\* generate_response zero times and sent no put_item.
C3_LookupFailure ==
    \A i \in Invocations :
        LookupFailed(i) =>
            /\ Done(i)
            /\ found[i].val \in StoreErrors
            /\ result[i] = Response(500, QueryErrorPrefix \o found[i].val)
            /\ genCalls[i] = 0
            /\ putCalls[i] = 0
            /\ put_response[i] = Unset

C3_Witness ==
    \E i \in Invocations :
        Done(i) /\ LookupFailed(i) /\ result[i].statusCode = 500

-----------------------------------------------------------------------------
C4_GenFailureInv ==
    \A i \in Invocations :
        (Done(i) /\ GenFailed(i)) =>
            /\ putCalls[i] = 1
            /\ \/ PutSucceeded(i) /\ result[i] = Response(200, FallbackText)
               \/ PutFailed(i) /\ result[i] = HandlerErr(put_response[i].val)

C4_GenFailureStep ==
    \A i \in Invocations :
        (PutStep(i) /\ GenFailed(i)) =>
            IF PutSucceeded(i)'
            THEN store' = [store EXCEPT ![request[i]] = TextItem(FallbackText)]
            ELSE store' = store

-----------------------------------------------------------------------------
\* Invocation i completed a successful generation and write-back.
Generated(i) == Done(i) /\ GenSucceeded(i) /\ PutSucceeded(i)
\* The invocations that wrote key k back.
Writers(k) == {w \in Invocations : request[w] = k /\ Done(w) /\ PutSucceeded(w)}

\* No generation has failed or panicked so far.
NoGenFailure == \A w \in Invocations : generated[w] \in {"Unset", "Ok"}

\* C5 as stated: once invocation i has completed a successful generation,
\* every request with the same body that arrives later (and whose lookup
\* goes through) is answered at once with the body i returned.  (Stated for
\* the runs in which every generation succeeds, so that the violation shown
\* does not rest on a stored fallback string.)
C5_Original ==
    [][\A j \in Invocations : (LookupStep(j) /\ GetSucceeded(j)) =>
        \A i \in Invocations \ {j} :
          (Generated(i) /\ NoGenFailure /\ request'[j] = request[i]) =>
              /\ Done(j)'
              /\ genCalls'[j] = 0
              /\ result'[j] = Response(200, result[i].body)]_vars

\* C5 (amended): once an invocation has completed a successful generation
\* and write-back, every request with the same body that arrives later and
\* whose lookup goes through hits the cache, calls the generator zero times
\* and is answered 200 with the value then stored: the body returned by an
\* invocation that wrote the key back, which is the first request's body
\* when no other invocation wrote that key back.
C5_Idempotence ==
    [][\A j \in Invocations : (LookupStep(j) /\ GetSucceeded(j)) =>
        \A i \in Invocations \ {j} :
          (Generated(i) /\ request'[j] = request[i]) =>
              /\ Done(j)' /\ Hit(j)'
              /\ genCalls'[j] = 0 /\ putCalls'[j] = 0
              /\ result'[j] = Response(200, store[request[i]].val)
              /\ \E w \in Writers(request[i]) : result'[j].body = result[w].body
              /\ Writers(request[i]) = {i} => result'[j] = result[i]]_vars

C5_Witness ==
    \E i, j \in Invocations :
        /\ i < j /\ Generated(i) /\ Done(j) /\ Hit(j)
        /\ request[j] = request[i] /\ result[j] = result[i]
        /\ genCalls[j] = 0
        /\ \A w \in Invocations \ {i, j} : pc[w] = "start"

-----------------------------------------------------------------------------
\* C6 (the doc comment of function_handler): whenever the lookup, the
\* generation or the put failed, the handler returns Ok(Response) with
\* status code 500.
C6_AnyErrorIs500 ==
    \A i \in Invocations :
        (Done(i) /\ (LookupFailed(i) \/ GenFailed(i) \/ PutFailed(i))) =>
            result[i].kind = "Ok" /\ result[i].statusCode = 500

-----------------------------------------------------------------------------
C7_NotReturnedInv ==
    \A i \in Invocations :
        (GenSucceeded(i) /\ PutFailed(i)) =>
            /\ Done(i)
            /\ result[i].kind = "Err"
            /\ result[i].body = put_response[i].val
            /\ result[i].body # openai_resp[i]

C7_NotReturnedStep ==
    \A i \in Invocations :
        (PutStep(i) /\ GenSucceeded(i) /\ PutFailed(i)') =>
            store' = store

-----------------------------------------------------------------------------
C8_PropagatesInv ==
    \A i \in Invocations :
        PutFailed(i) =>
            /\ Done(i)
            /\ Missed(i)
            /\ result[i] = HandlerErr(put_response[i].val)
            /\ result[i].statusCode \notin {200, 500}
            /\ putCalls[i] = 1

C8_PropagatesStep ==
    \A i \in Invocations :
        /\ (PutStep(i) /\ PutFailed(i)') => store' = store
        /\ (LookupStep(i) \/ GenerateStep(i)) => store' = store

-----------------------------------------------------------------------------
\* C9 as stated: once an invocation has written a record for a key, no later
\* step changes that key's entry.  (Stated for the runs in which every
\* generation succeeds.)
C9_Original ==
    [][\A k \in Keys :
          (Writers(k) # {} /\ NoGenFailure') => store'[k] = store[k]]_vars

\* C9 (amended): a key has one entry at a time and no step removes an
\* entry; an entry changes only in the successful put of an invocation that
\* missed on that key, which replaces it by that invocation's text.  A written
\* record is therefore overwritten only by an invocation whose miss on the key
\* preceded the write (last write wins); while no invocation is between its
\* miss on the key and its put, the entry does not change.
C9_WriteOnce ==
    [][\A k \in Keys :
          /\ store'[k] # store[k] =>
                \E i \in Invocations :
                    /\ request[i] = k /\ Missed(i) /\ PutStep(i) /\ PutSucceeded(i)'
                    /\ store'[k] = TextItem(openai_resp[i])
          /\ store[k] # NoItem => store'[k] # NoItem
          /\ (\A i \in Invocations :
                 request[i] = k => pc[i] \notin {"generate", "put"}) =>
                store'[k] = store[k]]_vars

C9_Witness ==
    \E i, j \in Invocations :
        /\ i # j /\ request[i] = request[j]
        /\ Done(i) /\ PutSucceeded(i) /\ Done(j) /\ PutSucceeded(j)
        /\ result[i].body # result[j].body
        /\ store[request[i]] = TextItem(result[j].body)

-----------------------------------------------------------------------------
\* C10: a lookup that goes through and finds an item whose 'output'
\* attribute is missing or is not text returns Ok(None), and the handler
\* goes on to generate.
C10_MalformedIsMiss ==
    [][\A i \in Invocations :
          (LookupStep(i) /\ GetSucceeded(i) /\ Looked(i).tag \in {"NoAttr", "N"}) =>
              found'[i] = None /\ pc'[i] = "generate"]_vars

-----------------------------------------------------------------------------
\* C11: every record the handler wrote was written by an invocation that
\* missed and whose generation succeeded; the fallback string is never the
\* value of a put that went through.
C11_OnlyAfterSuccess ==
    \A i \in Invocations :
        PutSucceeded(i) =>
            /\ Missed(i)
            /\ GenSucceeded(i)
            /\ openai_resp[i] # FallbackText

-----------------------------------------------------------------------------
\* Invocation i stored the fallback string: generation failed, put went through.
Poisoned(i) == Done(i) /\ GenFailed(i) /\ PutSucceeded(i)

\* C12 as stated: once invocation i has stored the fallback string under a
\* key, every request with the same body that arrives later (and whose
\* lookup goes through) is answered at once with status 200 and the
\* fallback string.
C12_Original ==
    [][\A j \in Invocations : (LookupStep(j) /\ GetSucceeded(j)) =>
        \A i \in Invocations \ {j} :
          (Poisoned(i) /\ request'[j] = request[i]) =>
              /\ Done(j)'
              /\ genCalls'[j] = 0
              /\ result'[j] = Response(200, FallbackText)]_vars

\* C12 (amended): once an invocation has stored the fallback string under a
\* key, every request with the same body that arrives later and whose lookup
\* goes through is a hit that calls the generator zero times and sends no
\* put, so nothing that arrives later regenerates the key; it is answered 200
\* with the value then stored, which is the fallback string when no other
\* invocation wrote that key back, and otherwise the text of an invocation
\* that wrote it back.
C12_Poisoning ==
    [][\A j \in Invocations : (LookupStep(j) /\ GetSucceeded(j)) =>
        \A i \in Invocations \ {j} :
          (Poisoned(i) /\ request'[j] = request[i]) =>
              /\ Done(j)' /\ Hit(j)'
              /\ genCalls'[j] = 0 /\ putCalls'[j] = 0
              /\ result'[j] = Response(200, store[request[i]].val)
              /\ \E w \in Writers(request[i]) : result'[j].body = openai_resp[w]
              /\ Writers(request[i]) = {i} =>
                    result'[j] = Response(200, FallbackText)]_vars

C12_Witness ==
    \E i, j \in Invocations :
        /\ i < j /\ Poisoned(i) /\ Done(j) /\ Hit(j)
        /\ request[j] = request[i]
        /\ result[j] = Response(200, FallbackText)
        /\ genCalls[j] = 0
        /\ \A w \in Invocations \ {i, j} : pc[w] = "start"

-----------------------------------------------------------------------------
\* Invocations i and j both missed on the same key.
BothMissed(i, j) ==
    i # j /\ request[i] = request[j] /\ Missed(i) /\ Missed(j)

C13_NotCoalescedInv ==
    \A i, j \in Invocations :
        (BothMissed(i, j) /\ PutSucceeded(i) /\ PutSucceeded(j)) =>
            /\ genCalls[i] = 1 /\ genCalls[j] = 1
            /\ putCalls[i] = 1 /\ putCalls[j] = 1
            /\ result[i] = Response(200, openai_resp[i])
            /\ result[j] = Response(200, openai_resp[j])

C13_LastWriteStep ==
    \A i \in Invocations :
        (PutStep(i) /\ PutSucceeded(i)' /\ \E j \in Invocations : BothMissed(i, j)) =>
            store'[request[i]] = TextItem(openai_resp[i])

\* C13: two invocations with the same key can both miss before either writes
\* back; each of them then calls the generator and sends its own put, each
\* put that goes through replaces whatever is stored under the key (so the
\* value left is that of the last put), and each invocation answers with its
\* own text.
C13_NotCoalesced == []C13_NotCoalescedInv /\ [][C13_LastWriteStep]_vars

C13_Witness ==
    \E i, j \in Invocations :
        /\ BothMissed(i, j)
        /\ Done(i) /\ GenSucceeded(i) /\ PutSucceeded(i)
        /\ Done(j) /\ GenSucceeded(j) /\ PutSucceeded(j)
        /\ genCalls[i] = 1 /\ genCalls[j] = 1
        /\ openai_resp[i] # openai_resp[j]
        /\ result[i].body = openai_resp[i] /\ result[j].body = openai_resp[j]
        /\ store[request[i]] = TextItem(openai_resp[j])

-----------------------------------------------------------------------------
\* C14: in every invocation the generator is called only after the lookup
\* returned a miss, the put is sent only after the generation step returned,
\* the response of the miss arm is produced only after the put returned, and
\* neither the generator call nor the put is repeated.
C14_StepOrder ==
    \A i \in Invocations :
        /\ genCalls[i] \in {0, 1} /\ putCalls[i] \in {0, 1}
        /\ genCalls[i] = 1 <=> generated[i] # "Unset"
        /\ putCalls[i] = 1 <=> put_response[i] # Unset
        /\ pc[i] = "start" => (found[i] = Unset /\ genCalls[i] = 0)
        /\ pc[i] = "generate" => (Missed(i) /\ genCalls[i] = 0)
        /\ genCalls[i] = 1 => Missed(i)
        /\ pc[i] = "put" =>
              (generated[i] \in {"Ok", "Err"} /\ putCalls[i] = 0 /\ result[i] = NoResult)
        /\ putCalls[i] = 1 => (generated[i] \in {"Ok", "Err"} /\ Done(i))
        /\ (Missed(i) /\ result[i].kind = "Ok") => (PutSucceeded(i) /\ Done(i))
        /\ result[i] # NoResult <=> Done(i)

C14_Witness ==
    \E i \in Invocations :
        /\ Done(i) /\ Missed(i) /\ genCalls[i] = 1 /\ putCalls[i] = 1
        /\ result[i] = Response(200, openai_resp[i])

-----------------------------------------------------------------------------
(* The ways an invocation ends.                                            *)
RespondFound(i) == Hit(i) /\ result[i] = Response(200, found[i].val)
RespondGenerated(i) ==
    Missed(i) /\ PutSucceeded(i) /\ result[i] = Response(200, openai_resp[i])
RespondError(i) ==
    LookupFailed(i) /\ result[i].kind = "Ok" /\ result[i].statusCode = 500
PutAborted(i) ==
    Missed(i) /\ PutFailed(i) /\ result[i] = HandlerErr(put_response[i].val)
Panicked(i) == Missed(i) /\ generated[i] = "Panic" /\ result[i] = HandlerPanic

C15_TerminalInv ==
    \A i \in Invocations :
        Done(i) =>
            /\ \/ RespondFound(i) \/ RespondGenerated(i) \/ RespondError(i)
               \/ PutAborted(i) \/ Panicked(i)
            /\ Cardinality({s \in 1..5 :
                              \/ s = 1 /\ RespondFound(i)
                              \/ s = 2 /\ RespondGenerated(i)
                              \/ s = 3 /\ RespondError(i)
                              \/ s = 4 /\ PutAborted(i)
                              \/ s = 5 /\ Panicked(i)}) = 1

C15_TerminalStep ==
    \A i \in Invocations :
        Done(i) =>
            /\ pc'[i] = pc[i] /\ result'[i] = result[i]
            /\ genCalls'[i] = genCalls[i] /\ putCalls'[i] = putCalls[i]
            /\ found'[i] = found[i] /\ put_response'[i] = put_response[i]

-----------------------------------------------------------------------------
\* C16: a successful service call that returns no completion makes
\* generate_response return an error value, which the handler turns into the
\* fallback string; the invocation is not aborted.
C16_EmptyIsError ==
    \A i \in Invocations :
        genCalls[i] = 1 =>
            /\ generated[i] \in {"Ok", "Err"}
            /\ result[i] # HandlerPanic

-----------------------------------------------------------------------------
(* The earlier variant, rust_app/src/AddChatFunction.rs: lookup and        *)
(* generation only.  It runs on the same variables; put_response and       *)
(* putCalls stay as they start, for there is no put_item in it.            *)

\* query_dynamodb of AddChatFunction.rs: an 'output' that is not text is
\* reported as absent.
Early_query_dynamodb(got) ==
    IF got.kind = "Err" THEN Err(got.err)
    ELSE IF got.item # NoItem
         THEN IF has_output(got.item)
              THEN IF as_s(got.item).kind = "Ok"
                   THEN Some(as_s(got.item).val)
                   ELSE None
              ELSE None
         ELSE None

\* The hit and error arms of AddChatFunction.rs: a query error is answered
\* with status 200 and e.to_string().
Early_match_arm(q) ==
    IF q.kind = "Some" THEN Response(200, q.val)
    ELSE IF q.kind = "Err" THEN Response(200, q.val)
    ELSE NoResult

\* generate_response of AddChatFunction.rs: build() and create().await are
\* unwrapped, so either failure panics, as does an empty completion list.
Early_generate_response(o) ==
    IF ~o.build THEN Panic
    ELSE IF ~o.call THEN Panic
    ELSE IF Len(o.choices) = 0 THEN Panic
    ELSE Ok(o.choices[1])

\* Lines 21-34, 42-49 of AddChatFunction.rs.
EarlyLookup(i) ==
    /\ pc[i] = "start"
    /\ i > 1 => pc[i - 1] # "start"
    /\ \E body \in Keys : \E got \in GetOutcomes(body) :
          /\ request' = [request EXCEPT ![i] = body]
          /\ found' = [found EXCEPT ![i] = Early_query_dynamodb(got)]
          /\ result' = [result EXCEPT ![i] = Early_match_arm(Early_query_dynamodb(got))]
          /\ pc' = [pc EXCEPT ![i] =
                      IF Early_query_dynamodb(got) = None THEN "generate" ELSE "done"]
    /\ UNCHANGED <<store, generated, openai_resp, put_response, genCalls, putCalls>>

\* A miss arm that stores what it generated, as add_chat_function.rs does.
EarlyGenerate_WriteBack(i) ==
    /\ pc[i] = "generate"
    /\ \E o \in GenOutcomes :
          /\ generated' = [generated EXCEPT ![i] = Early_generate_response(o).kind]
          /\ IF Early_generate_response(o) = Panic
             THEN /\ result' = [result EXCEPT ![i] = HandlerPanic]
                  /\ UNCHANGED <<openai_resp, store>>
             ELSE /\ openai_resp' = [openai_resp EXCEPT ![i] =
                                        transform_result(Early_generate_response(o))]
                  /\ result' = [result EXCEPT ![i] =
                       Response(200, transform_result(Early_generate_response(o)))]
                  /\ store' = [store EXCEPT ![request[i]] =
                       TextItem(transform_result(Early_generate_response(o)))]
    /\ pc' = [pc EXCEPT ![i] = "done"]
    /\ genCalls' = [genCalls EXCEPT ![i] = @ + 1]
    /\ UNCHANGED <<request, found, put_response, putCalls>>

\* Lines 35-41 of AddChatFunction.rs: the miss arm answers with
\* transform_result(generate_response(&request.body).await); nothing is put.
EarlyGenerate(i) ==
    /\ pc[i] = "generate"
    /\ \E o \in GenOutcomes :
          /\ generated' = [generated EXCEPT ![i] = Early_generate_response(o).kind]
          /\ IF Early_generate_response(o) = Panic
             THEN /\ result' = [result EXCEPT ![i] = HandlerPanic]
                  /\ UNCHANGED openai_resp
             ELSE /\ openai_resp' = [openai_resp EXCEPT ![i] =
                                        transform_result(Early_generate_response(o))]
                  /\ result' = [result EXCEPT ![i] =
                       Response(200, transform_result(Early_generate_response(o)))]
    /\ pc' = [pc EXCEPT ![i] = "done"]
    /\ genCalls' = [genCalls EXCEPT ![i] = @ + 1]
    /\ UNCHANGED <<store, request, found, put_response, putCalls>>

EarlyNext == \E i \in Invocations : EarlyLookup(i) \/ EarlyGenerate(i)

SpecEarly == Init /\ [][EarlyNext]_vars

C17_NoPersistenceInv ==
    \A i \in Invocations :
        /\ putCalls[i] = 0 /\ put_response[i] = Unset
        /\ (Done(i) /\ Missed(i)) => genCalls[i] = 1

C17_NoPersistenceStep ==
    /\ store' = store
    /\ \A j \in Invocations :
          (LookupStep(j) /\ GetSucceeded(j) /\ Looked(j) = NoItem) =>
              Missed(j)' /\ pc'[j] = "generate"

\* C17: in AddChatFunction.rs no step of any invocation changes the table,
\* so a lookup that goes through for a key the table does not hold is a miss
\* however many invocations have asked for that key before, and every
\* invocation that missed calls the generator (once).
C17_NoPersistence == []C17_NoPersistenceInv /\ [][C17_NoPersistenceStep]_vars

C17_Witness ==
    \E i, j \in Invocations :
        /\ i < j /\ request[i] = request[j]
        /\ Done(i) /\ Missed(i) /\ genCalls[i] = 1 /\ result[i].statusCode = 200
        /\ Done(j) /\ Missed(j) /\ genCalls[j] = 1 /\ result[j].statusCode = 200
        /\ store[request[i]] = NoItem

-----------------------------------------------------------------------------
\* C18: the table changes only in the put of an invocation that missed, and
\* only under that invocation's request body: a lookup (hit, miss or error)
\* and a generation step leave the whole table as it is, and a put leaves
\* every other key as it is.
C18_StoreFrame ==
    [][/\ \A i \in Invocations :
             /\ (LookupStep(i) \/ GenerateStep(i)) => store' = store
             /\ PutStep(i) =>
                   \A k \in Keys \ {request[i]} : store'[k] = store[k]
       /\ \A k \in Keys :
             store'[k] # store[k] =>
                \E i \in Invocations :
                    PutStep(i) /\ Missed(i) /\ request[i] = k]_vars

C18_Witness ==
    \E i, j, l \in Invocations :
        /\ Done(i) /\ PutSucceeded(i) /\ store[request[i]] = TextItem(openai_resp[i])
        /\ \E k \in Keys \ {request[i]} : store[k] = NoItem
        /\ Done(j) /\ Hit(j)
        /\ Done(l) /\ LookupFailed(l)

-----------------------------------------------------------------------------
C19_AgreementInv ==
    \A i \in Invocations :
        (Missed(i) /\ result[i].kind = "Ok") =>
            /\ PutSucceeded(i)
            /\ result[i].statusCode = 200
            /\ result[i].body = openai_resp[i]

C19_AgreementStep ==
    \A i \in Invocations :
        (PutStep(i) /\ result'[i].kind = "Ok") =>
            store'[request[i]] = TextItem(result'[i].body)

\* C19: an invocation that answers on the generated path answers with the
\* very text it put under its request key, and in the state its put leaves
\* the table maps the request body to the body it returns.
C19_Agreement == []C19_AgreementInv /\ [][C19_AgreementStep]_vars

C19_Witness ==
    \E i \in Invocations :
        /\ Done(i) /\ Missed(i) /\ PutSucceeded(i)
        /\ result[i] = Response(200, openai_resp[i])
        /\ store[request[i]] = TextItem(result[i].body)
====
